---------------------------- MODULE Spec2Model ----------------------------
(***************************************************************************)
(* The India Census Data Explorer (src/app.py) as a state machine.         *)
(*                                                                         *)
(* The program is a Streamlit script.  Streamlit re-executes the whole     *)
(* script, top to bottom, once at session start and once after every user  *)
(* interaction with a widget; a button reads True only in the run that its *)
(* own click started.  One run is modelled as the steps                    *)
(*     load_data -> Sidebar -> MainContent1 -> MainContent2                *)
(* (the "MAIN CONTENT" block occurs twice in the file, lines 169-423 and   *)
(* 426-680), and between runs the session waits for a user event.          *)
(*                                                                         *)
(* Numbers.  Column values are integers; a mean or a delta is an exact     *)
(* rational [k |-> "num", n, d] in lowest terms, or one of the IEEE        *)
(* specials [k |-> "nan"], [k |-> "inf"], [k |-> "-inf"] that numpy's      *)
(* float64 arithmetic yields instead of raising.  Binary rounding error    *)
(* of float64 is not modelled.  Attribute values are non-negative (census  *)
(* counts).                                                                *)
(***************************************************************************)
EXTENDS Integers, Sequences, FiniteSets, TLC

(***************************************************************************)
(* Bounds of the model.                                                    *)
(***************************************************************************)
\* rows of a table in the family that varies the State column
MaxRows == 3
\* rows of a table in the family that varies Latitude and Longitude
MaxGeoRows == 2
\* rows of a table in the family that varies the Population values
MaxStatRows == 3
\* rows of a table in the family of tables longer than the top-N cut
MaxTallRows == 11

(***************************************************************************)
(* Program constants.                                                      *)
(***************************************************************************)
\* the "all regions" entry of the region selector
Sentinel == "Overall India"
\* nlargest(10, primary)
TopN == 10
\* zoom_level of the two branches of the filter
ZoomAll == 4
ZoomState == 6

\* Python's None, for a string-valued name and for an object-valued name
None == "None"
NoObj == [k |-> "None"]

(***************************************************************************)
(* Strings: sorted() orders str by code point.  The strings that occur as  *)
(* State values or column names, in that order.                            *)
(***************************************************************************)
Alphabet ==
    <<"A", "B", "District", "Goa", "Kerala", "Latitude", "Literacy",
      "Longitude", "Overall India", "Population", "State">>

Rank(s) == CHOOSE i \in DOMAIN Alphabet : Alphabet[i] = s

RECURSIVE SortedStrs(_)
SortedStrs(S) ==
    IF S = {} THEN <<>>
    ELSE LET m == CHOOSE x \in S : \A y \in S : Rank(x) <= Rank(y)
         IN  <<m>> \o SortedStrs(S \ {m})

Range(s) == {s[i] : i \in DOMAIN s}

(***************************************************************************)
(* Floats.                                                                 *)
(***************************************************************************)
Abs(x) == IF x < 0 THEN -x ELSE x

RECURSIVE Gcd(_, _)
Gcd(a, b) == IF b = 0 THEN a ELSE Gcd(b, a % b)

NaN    == [k |-> "nan"]
PosInf == [k |-> "inf"]
NegInf == [k |-> "-inf"]

\* the float n/d, d > 0, in lowest terms
Ratio(n, d) ==
    LET g == Gcd(Abs(n), d)
    IN  [k |-> "num", n |-> n \div g, d |-> d \div g]

IsNum(x) == x.k = "num"

\* x / y on numpy.float64: division by zero gives inf or nan and a
\* RuntimeWarning, never an exception
FDiv(x, y) ==
    IF x.k = "nan" \/ y.k = "nan" THEN NaN
    ELSE IF IsNum(x) /\ IsNum(y) THEN
        IF y.n = 0
        THEN (IF x.n = 0 THEN NaN ELSE IF x.n > 0 THEN PosInf ELSE NegInf)
        ELSE IF y.n > 0 THEN Ratio(x.n * y.d, x.d * y.n)
        ELSE Ratio(-(x.n * y.d), x.d * (-y.n))
    ELSE NaN

\* (q - 1) * 100
PercentOver(q) ==
    IF IsNum(q) THEN Ratio((q.n - q.d) * 100, q.d) ELSE q

\* f"{x:.1f}%": a finite value rounded to tenths (ties to even), the
\* specials as the texts "nan", "inf", "-inf"
Fmt1(x) ==
    IF IsNum(x) THEN
        LET a == Abs(x.n) * 10
            q == a \div x.d
            r == a % x.d
            t == IF 2 * r > x.d \/ (2 * r = x.d /\ q % 2 = 1) THEN q + 1 ELSE q
        IN  [k |-> "num", tenths |-> IF x.n < 0 THEN -t ELSE t]
    ELSE [k |-> x.k]

(***************************************************************************)
(* Tables.  A table is [cols, rows]: the column names in file order and    *)
(* the rows, each a function from the column names to the cell values.     *)
(* A DataFrame object is [id, cols, rows]: id tells two objects with equal *)
(* contents apart.                                                         *)
(***************************************************************************)
BaseCols == <<"State", "District", "Latitude", "Longitude">>

DistrictNames ==
    <<"d01", "d02", "d03", "d04", "d05", "d06", "d07",
      "d08", "d09", "d10", "d11", "d12", "d13", "d14">>

\* row[cols]: the row restricted to the columns cols
Project(row, cols) == [c \in Range(cols) |-> row[c]]

\* the rows that can stand at line i of a file with attribute columns extra
RowsAt(i, extra, S, LA, LO, P, L) ==
    {Project([State |-> s, District |-> DistrictNames[i], Latitude |-> la,
              Longitude |-> lo, Population |-> p, Literacy |-> l],
             BaseCols \o extra) :
        s \in S, la \in LA, lo \in LO, p \in P, l \in L}

RECURSIVE RowSeqs(_, _, _, _, _, _, _)
RowSeqs(n, extra, S, LA, LO, P, L) ==
    IF n = 0 THEN {<<>>}
    ELSE {Append(rs, r) : rs \in RowSeqs(n - 1, extra, S, LA, LO, P, L),
                          r \in RowsAt(n, extra, S, LA, LO, P, L)}

\* the tables of n rows whose cells are drawn from the given sets
TablesOf(n, extra, S, LA, LO, P, L) ==
    {[cols |-> BaseCols \o extra, rows |-> rs] :
        rs \in RowSeqs(n, extra, S, LA, LO, P, L)}

BothAttrs == <<"Population", "Literacy">>

\* tables that vary the State column, the sentinel's text included
FilterTables ==
    UNION {TablesOf(n, BothAttrs, {Sentinel, "Goa", "Kerala"},
                    {10}, {20}, {1}, {2}) : n \in 0..MaxRows}

\* tables that vary the coordinates
GeoTables ==
    UNION {TablesOf(n, <<"Population">>, {"A", "B"},
                    {12, 14}, {22, 24}, {1}, {2}) : n \in 1..MaxGeoRows}

\* tables that vary the Population values, all-zero columns included
StatTables ==
    UNION {TablesOf(n, BothAttrs, {"A", "B"},
                    {10}, {20}, {0, 1}, {2}) : n \in 1..MaxStatRows}

\* tables of one region with many ties, around the top-N cut
TallTables ==
    UNION {TablesOf(n, <<"Population">>, {"A"},
                    {10}, {20}, {0, 1}, {2}) : n \in (TopN - 1)..MaxTallRows}

\* tables with every choice of attribute columns
SchemaTables ==
    UNION {TablesOf(2, extra, {"A", "B"}, {10}, {20}, {1}, {2}) :
            extra \in {<<>>, <<"Population">>, <<"Literacy">>, BothAttrs,
                       <<"Literacy", "Population">>}}

\* section 8 of spec.md: region A with one district, region B with two
ScenarioTable ==
    [cols |-> BaseCols \o <<"Population", "Literacy">>,
     rows |-> <<[State |-> "A", District |-> "d01", Latitude |-> 10,
                 Longitude |-> 20, Population |-> 100, Literacy |-> 1],
                [State |-> "B", District |-> "d02", Latitude |-> 12,
                 Longitude |-> 22, Population |-> 300, Literacy |-> 2],
                [State |-> "B", District |-> "d03", Latitude |-> 14,
                 Longitude |-> 24, Population |-> 500, Literacy |-> 3]>>]

Datasets ==
    FilterTables \cup GeoTables \cup StatTables \cup TallTables
        \cup SchemaTables \cup {ScenarioTable}

\* india.csv as the process finds it: a table, or no file, or no CSV
Files ==
    {[status |-> "ok", table |-> t] : t \in Datasets}
        \cup {[status |-> st, table |-> [k |-> "None"]] :
                st \in {"missing", "unparsable"}}

(***************************************************************************)
(* pandas.                                                                 *)
(***************************************************************************)
\* dtype of a column as read_csv infers it: text columns and the columns
\* of a file without data rows are object, the others int64 or float64
IsNumberDtype(table, c) ==
    /\ table.rows # <<>>
    /\ c \notin {"State", "District"}

\* df.select_dtypes(include=[np.number]).columns.tolist()
SelectNumber(table) ==
    SelectSeq(table.cols, LAMBDA c : IsNumberDtype(table, c))

\* df[c].unique(), as a set
Unique(rows, c) == {rows[i][c] : i \in DOMAIN rows}

RECURSIVE SumCol(_, _)
SumCol(rows, c) ==
    IF rows = <<>> THEN 0 ELSE Head(rows)[c] + SumCol(Tail(rows), c)

\* Series.mean(): NaN over no rows
Mean(rows, c) ==
    IF rows = <<>> THEN NaN ELSE Ratio(SumCol(rows, c), Len(rows))

\* BoolIndex with the comparison negated
BoolIndexNot(rows, state) == SelectSeq(rows, LAMBDA r : r["State"] # state)

\* df[df['State'] == state]: the matching rows in their order
BoolIndex(rows, state) == SelectSeq(rows, LAMBDA r : r["State"] = state)

\* DfCopy that hands back the object itself
DfAlias(frame, id) == frame

\* frame.copy(): a new object with the same contents
DfCopy(frame, id) == [frame EXCEPT !.id = id]

RemoveAt(s, i) == SubSeq(s, 1, i - 1) \o SubSeq(s, i + 1, Len(s))

\* NLargest with the later row first among equal values
RECURSIVE NLargestKeepLast(_, _, _)
NLargestKeepLast(rows, n, c) ==
    IF n = 0 \/ rows = <<>> THEN <<>>
    ELSE LET i == CHOOSE i \in DOMAIN rows :
                    \A j \in DOMAIN rows :
                        \/ rows[j][c] < rows[i][c]
                        \/ (rows[j][c] = rows[i][c] /\ i >= j)
         IN  <<rows[i]>>
                \o NLargestKeepLast(SubSeq(rows, 1, i - 1)
                                        \o SubSeq(rows, i + 1, Len(rows)),
                                    n - 1, c)

\* frame.nlargest(n, c), keep='first': the n rows with the largest c in
\* descending order, the earlier row first among equal values
RECURSIVE NLargest(_, _, _)
NLargest(rows, n, c) ==
    IF n = 0 \/ rows = <<>> THEN <<>>
    ELSE LET i == CHOOSE i \in DOMAIN rows :
                    \A j \in DOMAIN rows :
                        \/ rows[j][c] < rows[i][c]
                        \/ (rows[j][c] = rows[i][c] /\ i <= j)
         IN  <<rows[i]>> \o NLargest(RemoveAt(rows, i), n - 1, c)

\* frame[cols]
Columns(rows, cols) == [i \in DOMAIN rows |-> Project(rows[i], cols)]

\* one cell of column c as to_csv writes it
CellText(c, v) == IF c \in {"State", "District"} THEN v ELSE ToString(v)

\* frame.to_csv(index=False): the header line, then one line per row, each
\* line the sequence of its fields, every column in file order
ToCsv(frame) ==
    <<frame.cols>> \o
        [i \in DOMAIN frame.rows |->
            [j \in DOMAIN frame.cols |->
                CellText(frame.cols[j], frame.rows[i][frame.cols[j]])]]

(***************************************************************************)
(* State.                                                                  *)
(***************************************************************************)
VARIABLES
    file,             \* india.csv: [status, table]
    cache,            \* what st.cache_data holds for load_data, or NoObj
    df,               \* the global df of the current run, or NoObj
    pc,               \* where the current run stands
    trigger,          \* the button whose click started the current run
    selected_state,   \* the widgets' values (None before the first run)
    primary,
    secondary,
    show_stats,
    show_comparison,
    list_of_states,
    numeric_columns,
    plot,             \* the value of the Generate button in this run
    filtered_df,
    zoom_level,
    center_lat,
    center_lon,
    delta_primary,    \* delta of the "Avg primary" metric: a text or NoObj
    delta_secondary,
    top_districts,
    download_offer,   \* what st.download_button offers, or NoObj
    log,              \* the statements of the main content executed in this run
    error             \* the exception that ended this run, or None

vars ==
    <<file, cache, df, pc, trigger, selected_state, primary, secondary,
      show_stats, show_comparison, list_of_states, numeric_columns, plot,
      filtered_df, zoom_level, center_lat, center_lon, delta_primary,
      delta_secondary, top_districts, download_offer, log, error>>

widgets == <<selected_state, primary, secondary, show_stats, show_comparison>>

outputs ==
    <<filtered_df, zoom_level, center_lat, center_lon, delta_primary,
      delta_secondary, top_districts, download_offer>>

Init ==
    /\ file \in Files
    /\ cache = NoObj
    /\ df = NoObj
    /\ pc = "load"
    /\ trigger = "none"
    /\ selected_state = None
    /\ primary = None
    /\ secondary = None
    /\ show_stats = TRUE
    /\ show_comparison = TRUE
    /\ list_of_states = <<>>
    /\ numeric_columns = <<>>
    /\ plot = FALSE
    /\ filtered_df = NoObj
    /\ zoom_level = 0            \* 0: not assigned
    /\ center_lat = NoObj
    /\ center_lon = NoObj
    /\ delta_primary = NoObj
    /\ delta_secondary = NoObj
    /\ top_districts = NoObj
    /\ download_offer = NoObj
    /\ log = <<>>
    /\ error = None

(***************************************************************************)
(* Data loading, lines 85-99.                                              *)
(***************************************************************************)
\* LoadResult that answers a failure with an empty table and goes on
LoadResultSilent(f) ==
    IF f.status = "ok"
    THEN [ok |-> TRUE, table |-> f.table, shown |-> <<>>]
    ELSE [ok |-> TRUE, table |-> [cols |-> BaseCols, rows |-> <<>>],
          shown |-> <<>>]

\* the body of load_data: the table read, or the error shown before
\* st.stop() ends the run
LoadResult(f) ==
    IF f.status = "ok"
    THEN [ok |-> TRUE, table |-> f.table, shown |-> <<>>]
    ELSE [ok |-> FALSE, table |-> NoObj, shown |-> <<"st.error">>]

\* st.cache_data returns a new copy of the cached value at every call
FromCache(table) == [id |-> 1, cols |-> table.cols, rows |-> table.rows]

load_data ==
    /\ pc = "load"
    /\ IF cache # NoObj
       THEN /\ df' = FromCache(cache)
            /\ pc' = "sidebar"
            /\ UNCHANGED <<cache, log>>
       ELSE LET res == LoadResult(file)
            IN  IF res.ok
                THEN /\ cache' = res.table
                     /\ df' = FromCache(res.table)
                     /\ pc' = "sidebar"
                     /\ log' = log
                ELSE /\ log' = log \o res.shown
                     /\ pc' = "stopped"
                     /\ UNCHANGED <<cache, df>>
    /\ UNCHANGED <<file, trigger, widgets, list_of_states, numeric_columns,
                   plot, outputs, error>>

(***************************************************************************)
(* Sidebar, lines 107-166.                                                 *)
(***************************************************************************)
\* ListOfStates with a region written into the list by hand
ListOfStatesFixed(frame) ==
    <<Sentinel>> \o SortedStrs(Unique(frame.rows, "State") \cup {"Kerala"})

\* line 113
ListOfStates(frame) ==
    <<Sentinel>> \o SortedStrs(Unique(frame.rows, "State"))

\* lines 124-127
NumericColumns(frame) ==
    SelectSeq(SortedStrs(Range(SelectNumber(frame))),
              LAMBDA col : col \notin {"Latitude", "Longitude"})

\* st.selectbox(label, options, index): the value the user chose, or else
\* the option at index (0-based), or None when there are no options
Selectbox(value, options, index) ==
    IF value # None THEN value
    ELSE IF options = <<>> THEN None
    ELSE options[index + 1]

Sidebar ==
    /\ pc = "sidebar"
    /\ list_of_states' = ListOfStates(df)
    /\ selected_state' = Selectbox(selected_state, list_of_states', 0)
    /\ numeric_columns' = NumericColumns(df)
    /\ primary' = Selectbox(primary, numeric_columns', 0)
    /\ secondary' = Selectbox(secondary, numeric_columns',
                              IF Len(numeric_columns') > 1 THEN 1 ELSE 0)
    /\ plot' = (trigger = "plot")
    /\ pc' = "main1"
    /\ UNCHANGED <<file, cache, df, trigger, show_stats, show_comparison,
                   outputs, log, error>>

(***************************************************************************)
(* Main content, lines 169-423 and again lines 426-680.                    *)
(***************************************************************************)
\* the national centroid of lines 174-175: 20.5937 and 78.9629
NationalLat == Ratio(205937, 10000)
NationalLon == Ratio(789629, 10000)

\* FilteredDf without the branch for the sentinel
FilteredDfNoSentinel(frame, state, id) ==
    DfCopy([id |-> id, cols |-> frame.cols,
            rows |-> SelectSeq(frame.rows, LAMBDA r : r["State"] = state)],
           id + 1)

\* lines 171-172 and 176-177: filtered_df.  Boolean indexing makes a new
\* object (id) and .copy() makes another (id + 1).
FilteredDf(frame, state, id) ==
    IF state = Sentinel
    THEN DfCopy(frame, id)
    ELSE DfCopy([id |-> id, cols |-> frame.cols,
                 rows |-> BoolIndex(frame.rows, state)], id + 1)

\* CenterAndZoom with the two coordinate columns exchanged
CenterAndZoomSwapped(state, view) ==
    IF state = Sentinel
    THEN [zoom |-> ZoomAll, lat |-> NationalLon, lon |-> NationalLat]
    ELSE [zoom |-> ZoomState,
          lat  |-> Mean(view.rows, "Longitude"),
          lon  |-> Mean(view.rows, "Latitude")]

\* lines 173-175 and 178-180: zoom_level, center_lat, center_lon
CenterAndZoom(state, view) ==
    IF state = Sentinel
    THEN [zoom |-> ZoomAll, lat |-> NationalLat, lon |-> NationalLon]
    ELSE [zoom |-> ZoomState,
          lat  |-> Mean(view.rows, "Latitude"),
          lon  |-> Mean(view.rows, "Longitude")]

\* lines 199 and 206: the delta argument of st.metric
Delta(view, frame, col, state) ==
    IF state # Sentinel
    THEN Fmt1(PercentOver(FDiv(Mean(view.rows, col), Mean(frame.rows, col))))
    ELSE NoObj

\* line 267: top_districts
TopDistricts(view, col) ==
    LET cols == <<"District", col, "State">>
    IN  [cols |-> cols,
         rows |-> Columns(NLargest(view.rows, TopN, col), cols)]

\* line 348: selected_state.replace(" ", "_") inside the file name
ReplaceSpaces(state) ==
    IF state = "Overall India" THEN "Overall_India" ELSE state

\* lines 344-350: what st.download_button is given
DownloadOffer(view, state) ==
    [data      |-> ToCsv(view),
     file_name |-> <<"india_census_", ReplaceSpaces(state), ".csv">>,
     mime      |-> "text/csv"]

\* the statements of the visualization branch that the toggles let run, in
\* the order of the file: filter (171-180), metrics (183-215), map
\* (218-255), charts (258-332), download_button (343), dataframe (353-357),
\* describe (360-371)
Statements ==
    <<"filter">>
        \o (IF show_stats THEN <<"metrics">> ELSE <<>>)
        \o <<"map">>
        \o (IF show_comparison THEN <<"charts">> ELSE <<>>)
        \o <<"download_button", "dataframe", "describe">>

\* The exception that statement s raises after the statements in done, or
\* None.  With no attribute column both selectors return None and the
\* first statement that indexes the frame by it raises KeyError (the map
\* takes None for "no size, no colour").  st.button without a key raises
\* DuplicateWidgetID when a button with the same label was made earlier in
\* the run.  sort_values(by=primary) raises ValueError when the selected
\* frame holds the column twice, which is when primary = secondary.
Raises(s, done) ==
    CASE s \in {"metrics", "charts", "dataframe"} /\ primary = None
            -> "KeyError"
      [] s = "download_button" /\ s \in Range(done)
            -> "DuplicateWidgetID"
      [] s = "dataframe" /\ primary # None /\ primary = secondary
            -> "ValueError"
      [] OTHER -> None

\* runs the statements until one raises
RECURSIVE Execute(_, _)
Execute(stmts, done) ==
    IF stmts = <<>> THEN [done |-> done, error |-> None]
    ELSE LET e == Raises(Head(stmts), done)
         IN  IF e # None
             THEN [done |-> Append(done, "exception"), error |-> e]
             ELSE Execute(Tail(stmts), Append(done, Head(stmts)))

\* the "if plot:" branch
Visualization(next) ==
    LET id   == IF filtered_df = NoObj THEN df.id + 1 ELSE filtered_df.id + 1
        view == FilteredDf(df, selected_state, id)
        geo  == CenterAndZoom(selected_state, view)
        res  == Execute(Statements, log)
        Ran(s) == \E i \in (Len(log) + 1)..Len(res.done) : res.done[i] = s
    IN  /\ filtered_df' = view
        /\ zoom_level' = geo.zoom
        /\ center_lat' = geo.lat
        /\ center_lon' = geo.lon
        /\ delta_primary' =
              IF Ran("metrics")
              THEN Delta(view, df, primary, selected_state)
              ELSE delta_primary
        /\ delta_secondary' =
              IF Ran("metrics")
              THEN Delta(view, df, secondary, selected_state)
              ELSE delta_secondary
        /\ top_districts' =
              IF Ran("charts") THEN TopDistricts(view, primary)
              ELSE top_districts
        /\ download_offer' =
              IF Ran("download_button") /\ trigger = "download"
              THEN DownloadOffer(view, selected_state)
              ELSE download_offer
        /\ log' = res.done
        /\ error' = res.error
        /\ pc' = IF res.error # None THEN "idle" ELSE next

\* the "else:" branch: the welcome screen
Welcome(next) ==
    /\ log' = Append(log, "welcome")
    /\ pc' = next
    /\ UNCHANGED <<outputs, error>>

MainContent(next) ==
    /\ IF plot THEN Visualization(next) ELSE Welcome(next)
    /\ UNCHANGED <<file, cache, df, trigger, widgets, list_of_states,
                   numeric_columns, plot>>

MainContent1 == pc = "main1" /\ MainContent("main2")

MainContent2 == pc = "main2" /\ MainContent("idle")

(***************************************************************************)
(* The user.  Every interaction with a widget starts a new run of the      *)
(* script; the names the script binds are new in every run.                *)
(***************************************************************************)
Rerun(button) ==
    /\ pc = "idle"
    /\ pc' = "load"
    /\ trigger' = button
    /\ df' = NoObj
    /\ plot' = FALSE
    /\ filtered_df' = NoObj
    /\ zoom_level' = 0
    /\ center_lat' = NoObj
    /\ center_lon' = NoObj
    /\ delta_primary' = NoObj
    /\ delta_secondary' = NoObj
    /\ top_districts' = NoObj
    /\ download_offer' = NoObj
    /\ log' = <<>>
    /\ error' = None
    /\ UNCHANGED <<file, cache, list_of_states, numeric_columns>>

SelectRegion ==
    /\ \E r \in Range(list_of_states) :
          /\ r # selected_state
          /\ selected_state' = r
    /\ Rerun("none")
    /\ UNCHANGED <<primary, secondary, show_stats, show_comparison>>

SelectPrimary ==
    /\ \E c \in Range(numeric_columns) :
          /\ c # primary
          /\ primary' = c
    /\ Rerun("none")
    /\ UNCHANGED <<selected_state, secondary, show_stats, show_comparison>>

SelectSecondary ==
    /\ \E c \in Range(numeric_columns) :
          /\ c # secondary
          /\ secondary' = c
    /\ Rerun("none")
    /\ UNCHANGED <<selected_state, primary, show_stats, show_comparison>>

ToggleStats ==
    /\ show_stats' = ~show_stats
    /\ Rerun("none")
    /\ UNCHANGED <<selected_state, primary, secondary, show_comparison>>

ToggleComparison ==
    /\ show_comparison' = ~show_comparison
    /\ Rerun("none")
    /\ UNCHANGED <<selected_state, primary, secondary, show_stats>>

\* the Generate Visualization button of line 166
ClickGenerate ==
    /\ Rerun("plot")
    /\ UNCHANGED widgets

\* the Download CSV button of line 343, when the last run drew it
ClickDownload ==
    /\ "download_button" \in Range(log)
    /\ Rerun("download")
    /\ UNCHANGED widgets

Next ==
    \/ load_data
    \/ Sidebar
    \/ MainContent1
    \/ MainContent2
    \/ SelectRegion
    \/ SelectPrimary
    \/ SelectSecondary
    \/ ToggleStats
    \/ ToggleComparison
    \/ ClickGenerate
    \/ ClickDownload

Spec == Init /\ [][Next]_vars

(***************************************************************************)
(* What the claims speak of, stated without the operators of the model.    *)
(***************************************************************************)
\* a run has bound filtered_df
HasView == filtered_df # NoObj

\* the positions of the dataset's records whose State is r
RegionIdx(r) ==
    {i \in DOMAIN file.table.rows : file.table.rows[i]["State"] = r}

\* the k-th smallest member of the set of positions I
Kth(I, k) == CHOOSE i \in I : Cardinality({j \in I : j <= i}) = k

\* view holds exactly the dataset's records at the positions I, in order
IsRecordsAt(view, I) ==
    /\ Len(view) = Cardinality(I)
    /\ \A k \in 1..Len(view) : view[k] = file.table.rows[Kth(I, k)]

\* the regions of the dataset
Regions == {file.table.rows[i]["State"] : i \in DOMAIN file.table.rows}

\* the view that a pass with selected_state = r computes
ViewOf(r) == FilteredDf(df, r, 2).rows

\* the views of the regions in R hold every record at the positions I
\* exactly once, and nothing else
Partition(R, I) ==
    /\ \A i \in I :
          Cardinality({r \in R : \E k \in DOMAIN ViewOf(r) :
                                    ViewOf(r)[k] = file.table.rows[i]}) = 1
    /\ \A r \in R : \A k \in DOMAIN ViewOf(r) :
          /\ \E i \in I : ViewOf(r)[k] = file.table.rows[i]
          /\ \A m \in DOMAIN ViewOf(r) : ViewOf(r)[m] = ViewOf(r)[k] => m = k

(***************************************************************************)
(* C1.  As claimed: for every region r of the State column, the view of a  *)
(* pass with selected_state = r holds exactly the records whose State is   *)
(* r, in their original order, and the views of all the regions partition  *)
(* the dataset.                                                            *)
(***************************************************************************)
C1_FilterEveryRegion ==
    HasView =>
        /\ \A r \in Regions :
              selected_state = r =>
                  IsRecordsAt(filtered_df.rows, RegionIdx(r))
        /\ Partition(Regions, DOMAIN file.table.rows)

(***************************************************************************)
(* C1, amended.  For every region r of the State column other than the     *)
(* text "Overall India", the view of a pass with selected_state = r holds  *)
(* exactly the records whose State is r, in their original order, and the  *)
(* views of these regions partition the records whose State is not         *)
(* "Overall India".                                                        *)
(***************************************************************************)
C1_FilterNamedRegion ==
    HasView =>
        /\ \A r \in Regions \ {Sentinel} :
              selected_state = r =>
                  IsRecordsAt(filtered_df.rows, RegionIdx(r))
        /\ Partition(Regions \ {Sentinel},
                     {i \in DOMAIN file.table.rows :
                         file.table.rows[i]["State"] # Sentinel})

\* a finished pass for a region whose records are not adjacent in the file
C1_Witness ==
    /\ pc = "idle"
    /\ HasView
    /\ selected_state \in Regions \ {Sentinel}
    /\ Len(filtered_df.rows) = 2
    /\ Len(df.rows) = 3
    /\ df.rows[2]["State"] \notin {selected_state, Sentinel}

(***************************************************************************)
(* C2.  When the selected region is the sentinel "Overall India", the view *)
(* equals the whole dataset: the same columns, the same records, the same  *)
(* order.                                                                  *)
(***************************************************************************)
C2_SentinelWholeDataset ==
    (HasView /\ selected_state = Sentinel) =>
        /\ filtered_df.cols = file.table.cols
        /\ filtered_df.rows = file.table.rows

\* a finished pass for the sentinel over a dataset of several regions
C2_Witness ==
    /\ pc = "idle"
    /\ HasView
    /\ selected_state = Sentinel
    /\ Cardinality(Regions) >= 2
    /\ Len(filtered_df.rows) >= 2

\* the sum of attr over the dataset's records at the positions I
RECURSIVE SumAt(_, _)
SumAt(I, attr) ==
    IF I = {} THEN 0
    ELSE LET i == CHOOSE i \in I : TRUE
         IN  file.table.rows[i][attr] + SumAt(I \ {i}, attr)

\* the statistics of this run have been shown
MetricsShown == "metrics" \in Range(log)

(***************************************************************************)
(* C3.  As claimed: when a specific region is selected and the mean of an  *)
(* attribute over the whole dataset is 0, the delta shown for that         *)
(* attribute is absent ("not applicable"): no nan, no inf.                 *)
(***************************************************************************)
C3_ZeroMeanDeltaAbsent ==
    (MetricsShown /\ selected_state # Sentinel) =>
        /\ SumAt(DOMAIN file.table.rows, primary) = 0
              => delta_primary = NoObj
        /\ SumAt(DOMAIN file.table.rows, secondary) = 0
              => delta_secondary = NoObj

\* the number that the text of a csv field stands for
ParseInt(text) == CHOOSE v \in 0..1000 : ToString(v) = text

(***************************************************************************)
(* C4.  As claimed: once Download CSV has been pressed and the run it      *)
(* starts is over, the data offered for download is the current view       *)
(* restricted to State, District, primary and secondary, the rows sorted   *)
(* descending by primary; reparsed, it gives the values of that view.      *)
(***************************************************************************)
C4_ExportSortedFourColumns ==
    (pc = "idle" /\ trigger = "download") =>
        /\ download_offer # NoObj
        /\ LET data == download_offer.data
               view == ViewOf(selected_state)
               four == <<"State", "District", primary, secondary>>
               Line(row) == [j \in 1..4 |-> CellText(four[j], row[four[j]])]
           IN  /\ data[1] = four
               /\ Len(data) = Len(view) + 1
               /\ \A k \in DOMAIN view : \E i \in 2..Len(data) :
                     data[i] = Line(view[k])
               /\ \A i \in 2..(Len(data) - 1) :
                     ParseInt(data[i][3]) >= ParseInt(data[i + 1][3])

(***************************************************************************)
(* C5.  For the sentinel the map centre is (20.5937, 78.9629) and the zoom *)
(* is 4, whatever the data; for a specific region the centre is the        *)
(* arithmetic mean of the latitudes and of the longitudes of the records   *)
(* of that region and the zoom is 6.                                       *)
(***************************************************************************)
C5_CenterAndZoom ==
    HasView =>
        IF selected_state = Sentinel
        THEN /\ zoom_level = 4
             /\ center_lat = [k |-> "num", n |-> 205937, d |-> 10000]
             /\ center_lon = [k |-> "num", n |-> 789629, d |-> 10000]
        ELSE LET I == RegionIdx(selected_state)
             IN  /\ zoom_level = 6
                 /\ IsNum(center_lat) /\ IsNum(center_lon)
                 /\ center_lat.n * Cardinality(I)
                        = center_lat.d * SumAt(I, "Latitude")
                 /\ center_lon.n * Cardinality(I)
                        = center_lon.d * SumAt(I, "Longitude")

\* records at (12, 22) and (14, 24) give the centre (13, 23) and zoom 6
C5_Witness ==
    /\ pc = "idle"
    /\ HasView
    /\ selected_state # Sentinel
    /\ Len(filtered_df.rows) = 2
    /\ filtered_df.rows[1]["Latitude"] = 12
    /\ filtered_df.rows[1]["Longitude"] = 22
    /\ filtered_df.rows[2]["Latitude"] = 14
    /\ filtered_df.rows[2]["Longitude"] = 24
    /\ center_lat = [k |-> "num", n |-> 13, d |-> 1]
    /\ center_lon = [k |-> "num", n |-> 23, d |-> 1]
    /\ zoom_level = 6

(***************************************************************************)
(* C6.  The top-10 ranking of the bar chart is sorted descending by the    *)
(* primary attribute, has min(10, |view|) rows, each a record of the view, *)
(* none ranked below a record left out that has a larger value, and rows   *)
(* with equal values stand in their original order of the view.            *)
(***************************************************************************)
C6_TopTen ==
    top_districts # NoObj =>
        LET top  == top_districts.rows
            view == filtered_df.rows
            Pos(i) == CHOOSE k \in DOMAIN view :
                          view[k]["District"] = top[i]["District"]
            chosen == {Pos(i) : i \in DOMAIN top}
        IN  /\ Len(top) = (IF Len(view) < 10 THEN Len(view) ELSE 10)
            /\ \A i \in DOMAIN top :
                  /\ \E k \in DOMAIN view :
                        view[k]["District"] = top[i]["District"]
                  /\ top[i][primary] = view[Pos(i)][primary]
                  /\ top[i]["State"] = view[Pos(i)]["State"]
            /\ \A i, j \in DOMAIN top :
                  i < j =>
                      /\ top[i][primary] >= top[j][primary]
                      /\ top[i][primary] = top[j][primary] => Pos(i) < Pos(j)
            /\ \A k \in DOMAIN view \ chosen : \A i \in DOMAIN top :
                  view[k][primary] <= top[i][primary]

\* eleven records, ten ranked, equal values among the ranked and a record
\* left out
C6_Witness ==
    /\ top_districts # NoObj
    /\ Len(filtered_df.rows) = 11
    /\ Len(top_districts.rows) = 10
    /\ top_districts.rows[1][primary] = 1
    /\ top_districts.rows[2][primary] = 1
    /\ top_districts.rows[9][primary] = 0
    /\ top_districts.rows[10][primary] = 0
    /\ filtered_df.rows[1][primary] = 0

\* the attribute columns of the dataset: its number columns other than the
\* coordinates
NumericAttributes ==
    {c \in Range(file.table.cols) :
        /\ c \notin {"State", "District", "Latitude", "Longitude"}
        /\ file.table.rows # <<>>}

\* the sidebar of this run has been drawn
SidebarDone == pc \in {"main1", "main2", "idle"}

(***************************************************************************)
(* C7.  As claimed: in every pass, for every dataset, a dataset with no    *)
(* attribute column included, the primary and the secondary attribute are  *)
(* members of the dataset's numeric-attribute set, and that set holds      *)
(* neither Latitude nor Longitude.                                         *)
(***************************************************************************)
C7_SelectionIsNumeric ==
    SidebarDone =>
        /\ Range(numeric_columns) = NumericAttributes
        /\ "Latitude" \notin Range(numeric_columns)
        /\ "Longitude" \notin Range(numeric_columns)
        /\ primary \in Range(numeric_columns)
        /\ secondary \in Range(numeric_columns)

\* how often statement s was executed in this run
Count(s) == Cardinality({i \in DOMAIN log : log[i] = s})

(***************************************************************************)
(* C8.  As claimed: the run that a press of Generate Visualization starts  *)
(* executes the filter and geo-centering exactly once, and renders the     *)
(* statistics, the map and the charts no more than once.                   *)
(***************************************************************************)
C8_OnePassPerPress ==
    (pc = "idle" /\ trigger = "plot") =>
        /\ Count("filter") = 1
        /\ Count("metrics") <= 1
        /\ Count("map") <= 1
        /\ Count("charts") <= 1

(***************************************************************************)
(* C9.  If india.csv is missing or cannot be parsed, the run shows an      *)
(* error and halts: no dataset is bound, not even an empty one, and        *)
(* neither the sidebar nor the main content is ever executed.              *)
(***************************************************************************)
C9_LoadFailureHalts ==
    file.status # "ok" =>
        /\ pc \in {"load", "stopped"}
        /\ pc = "stopped" => log = <<"st.error">>
        /\ df = NoObj
        /\ cache = NoObj
        /\ list_of_states = <<>>
        /\ selected_state = None
        /\ filtered_df = NoObj

\* the run of a session without a readable file has halted
C9_Witness ==
    /\ file.status = "unparsable"
    /\ pc = "stopped"
    /\ log = <<"st.error">>

(***************************************************************************)
(* C10.  The loaded dataset is never modified: in every run df holds the   *)
(* columns and records of the file as loaded, in their order, whatever     *)
(* passes, selections and toggles went before, and the view is an object   *)
(* of its own, not df.                                                     *)
(***************************************************************************)
C10_DatasetReadOnly ==
    /\ df # NoObj =>
          /\ df.cols = file.table.cols
          /\ df.rows = file.table.rows
    /\ cache # NoObj => cache = file.table
    /\ HasView => filtered_df.id # df.id

\* a later pass, for a specific region, after a toggle
C10_Witness ==
    /\ pc = "idle"
    /\ trigger = "plot"
    /\ HasView
    /\ ~show_stats
    /\ selected_state # Sentinel
    /\ Len(df.rows) >= 2

(***************************************************************************)
(* C11.  In every pass with a specific region selected, the region is an   *)
(* entry of the selector's list and a region of the dataset, the view has  *)
(* at least one record, and the map centre is a number: no mean is taken   *)
(* over zero records.                                                      *)
(***************************************************************************)
C11_SpecificRegionHasRecords ==
    (HasView /\ selected_state # Sentinel) =>
        /\ \E i \in DOMAIN list_of_states : list_of_states[i] = selected_state
        /\ selected_state \in Regions
        /\ Len(filtered_df.rows) >= 1
        /\ Cardinality(RegionIdx(selected_state)) = Len(filtered_df.rows)
        /\ center_lat.k = "num"
        /\ center_lon.k = "num"

\* a finished pass for one region of a dataset of two, statistics shown
C11_Witness ==
    /\ pc = "idle"
    /\ HasView
    /\ MetricsShown
    /\ selected_state # Sentinel
    /\ Cardinality(Regions) = 2
    /\ Len(filtered_df.rows) = 1
    /\ Len(df.rows) = 3

\* the region as the file name is to embed it: spaces as underscores
Underscored(region) ==
    IF region = "Overall India" THEN "Overall_India" ELSE region

(***************************************************************************)
(* C12.  As claimed: after a visualization has been generated, a press of  *)
(* Download CSV leads to a state in which the download is offered: when    *)
(* the run that the press starts is over, st.download_button holds the     *)
(* records of the view of the selected region, under a file name that      *)
(* embeds the region with its spaces replaced by underscores.              *)
(***************************************************************************)
C12_DownloadOnDemand ==
    (pc = "idle" /\ trigger = "download") =>
        /\ download_offer # NoObj
        /\ download_offer.file_name
              = <<"india_census_", Underscored(selected_state), ".csv">>
        /\ Len(download_offer.data) = Len(ViewOf(selected_state)) + 1
        /\ \A k \in DOMAIN ViewOf(selected_state) :
              download_offer.data[k + 1][2]
                  = ViewOf(selected_state)[k]["District"]

=============================================================================
